---- MODULE Spec2Model ----
(***************************************************************************)
(* Gamification engine of Ahorify: streaks, points, milestones and levels  *)
(* (core/services/gamification_service.py) over the user_stats,            *)
(* daily_engagement and streak_milestones tables (core/database.py).       *)
(*                                                                         *)
(* Calendar dates are day numbers; day 0 falls on weekday EpochWeekday     *)
(* (0 = Monday, as date.weekday()).  A stored last_activity_date is a      *)
(* tagged value: SQL NULL, or the ISO text of a day.  progress_percentage  *)
(* is kept in tenths of a percent (the code rounds it to one decimal).     *)
(***************************************************************************)
EXTENDS Integers, Sequences, FiniteSets

VARIABLES
    today,              \* date.today()
    user_stats,         \* the user_stats row of the service's user_id
    daily_engagement,   \* daily_engagement: activity_date |-> actions_count, one row per date
    streak_milestones,  \* milestone_days of the rows of streak_milestones
    call,               \* the last call made: operation, arguments, failing store operations, row it found
    result,             \* the Dict returned by the last record_engagement
    progress,           \* the Dict returned by the last get_user_progress
    threads,            \* record_engagement calls running in threads: position and locals of each
    tally               \* what the threads' calls have reported so far: points awarded, calls per day

vars == <<today, user_stats, daily_engagement, streak_milestones, call, result, progress,
          threads, tally>>

----------------------------------------------------------------------------
(* Bounds of the model *)

MaxDay == 1            \* last calendar day of Spec
MaxCalls == 2          \* record_engagement calls that reach the ledger, Spec
MaxStreakDay == 4      \* last calendar day of SpecStreak
MaxStreakCalls == 4    \* record_engagement calls that reach the ledger, SpecStreak
MaxLongDay == 7        \* last calendar day of SpecLong
MaxLongCalls == 8      \* record_engagement calls that reach the ledger, SpecLong
MaxCorruptDay == 2     \* last calendar day of SpecCorrupt
MaxCorruptCalls == 3   \* record_engagement calls that reach the ledger, SpecCorrupt
MaxConcDay == 2        \* last calendar day of SpecConc
MaxConcCalls == 3      \* record_engagement calls that reach the ledger, SpecConc
MaxProtectDay == 2     \* last calendar day of SpecProtect
MaxProtectCalls == 3   \* record_engagement calls that reach the ledger, SpecProtect
MaxClockDay == 3       \* last calendar day of SpecClock
MaxClockCalls == 4     \* record_engagement calls that reach the ledger, SpecClock
MaxUserDay == 1        \* last calendar day of SpecUser
MaxUserCalls == 2      \* record_engagement calls that reach the ledger, SpecUser
MaxFaults == 1         \* store operations that raise during one call
MaxPoints == 4600      \* largest total_points of SpecLevel
EpochWeekday == 4      \* weekday of day 0 (4 = Friday)

----------------------------------------------------------------------------
(* Configuration tables *)

ConfiguredActions ==
    {"transaction_added", "dashboard_viewed", "goal_checked",
     "weekly_review_completed", "category_analysis_viewed"}

CustomActions == {"custom_note"}

POINTS_CONFIG ==
    [a \in ConfiguredActions |->
        CASE a = "transaction_added" -> 10
          [] a = "dashboard_viewed" -> 5
          [] a = "goal_checked" -> 3
          [] a = "weekly_review_completed" -> 25
          [] a = "category_analysis_viewed" -> 15]

MilestoneDays == {3, 7, 14, 30, 90}

STREAK_MILESTONES ==
    [m \in MilestoneDays |->
        CASE m = 3 -> 25
          [] m = 7 -> 50
          [] m = 14 -> 100
          [] m = 30 -> 250
          [] m = 90 -> 500]

LEVELS == <<0, 100, 300, 600, 1000, 1500, 2100, 2800, 3600, 4500>>

\* The action types callers pass: the configured ones, a custom_ tag,
\* "app_loaded" (main.py) and a tag nobody recognises.
ActionTypes == ConfiguredActions \cup CustomActions \cup {"app_loaded", "unknown_action"}

\* metadata argument: truthy is Python's truth value of the dict (None and {}
\* are falsy), the flags are metadata.get(flag, False).
NoMetadata == [truthy |-> FALSE, first_time |-> FALSE, consistent_week |-> FALSE]

MetadataValues ==
    {NoMetadata} \cup
    {[truthy |-> TRUE, first_time |-> f, consistent_week |-> c] : f, c \in BOOLEAN}

\* Store operations of one record_engagement / get_user_progress call that may raise.
FaultPoints ==
    {"ledger", "streak_read", "streak_write", "points_read", "points_write",
     "ms_read", "ms_write", "ms_record", "level_read", "total_read"}

FaultSets == {F \in SUBSET FaultPoints : Cardinality(F) <= MaxFaults}

----------------------------------------------------------------------------
(* Stored dates *)

NullDate == [kind |-> "null", day |-> 0]

IsoFormat(d) == [kind |-> "iso", day |-> d]

\* The empty string in the TEXT column last_activity_date
EmptyDate == [kind |-> "empty", day |-> 0]

\* A non-empty text in that column that strptime(..., '%Y-%m-%d') rejects
UnparseableDate == [kind |-> "text", day |-> 0]

\* not user_stats.get('last_activity_date')
DateIsFalsy(s) == s.kind \in {"null", "empty"}

\* _parse_date: strptime, falling back to date.today()
ParseDate(s, now) == IF s.kind = "iso" THEN s.day ELSE now

\* date.weekday()
Weekday(d) == (d + EpochWeekday) % 7

----------------------------------------------------------------------------
(* Database *)

NoRow == [exists |-> FALSE, current_streak |-> 0, longest_streak |-> 0,
          total_points |-> 0, total_streak_days |-> 0,
          last_activity_date |-> NullDate,
          freeze_used_this_week |-> FALSE, recovery_used_this_month |-> FALSE]

\* _insert_initial_data: the default_user row of a new database
InitialRow == [NoRow EXCEPT !.exists = TRUE]

\* update_user_stats: UPDATE ... WHERE user_id = ?  (no row, no effect); the
\* two protection flags come from stats_data.get(flag, False) and no caller
\* passes them.
UpdateUserStats(row, cs, ls, tp, tsd, lad) ==
    IF row.exists
    THEN [exists |-> TRUE, current_streak |-> cs, longest_streak |-> ls,
          total_points |-> tp, total_streak_days |-> tsd,
          last_activity_date |-> lad,
          freeze_used_this_week |-> FALSE, recovery_used_this_month |-> FALSE]
    ELSE row

\* record_daily_engagement: INSERT (actions_count defaults to 1)
\* ON CONFLICT(user_id, activity_date) DO UPDATE SET actions_count = actions_count + 1
RecordDailyEngagement(ledger, now) ==
    [d \in DOMAIN ledger \cup {now} |->
        IF d \in DOMAIN ledger
        THEN (IF d = now THEN ledger[d] + 1 ELSE ledger[d])
        ELSE 1]

\* add_streak_milestone: INSERT OR REPLACE
AddStreakMilestone(ms, m) == ms \cup {m}

----------------------------------------------------------------------------
(* GamificationService: pure helpers *)

\* action_type.startswith("custom_"), over the tags of ActionTypes
StartsWithCustom(action_type) == action_type \in CustomActions

\* Variant: no validation, every tag is accepted
IsValidActionAny(action_type) == TRUE

\* _is_valid_action
IsValidAction(action_type) ==
    action_type \in DOMAIN POINTS_CONFIG \/ StartsWithCustom(action_type)

\* POINTS_CONFIG.get(action_type, 5)
BasePoints(action_type) ==
    IF action_type \in DOMAIN POINTS_CONFIG THEN POINTS_CONFIG[action_type] ELSE 5

\* _calculate_bonuses
CalculateBonuses(metadata, now) ==
    IF metadata.truthy
    THEN (IF metadata.first_time THEN 10 ELSE 0)
         + (IF metadata.consistent_week THEN 20 ELSE 0)
         + (IF Weekday(now) >= 5 THEN 5 ELSE 0)
    ELSE 0

\* Variant: the threshold itself does not yet reach the level (> for >=)
RECURSIVE LevelLoopStrict(_, _, _)
LevelLoopStrict(points, i, level) ==
    IF i > Len(LEVELS) THEN level
    ELSE IF points > LEVELS[i] THEN LevelLoopStrict(points, i + 1, i - 1)
    ELSE level

\* _calculate_level: the loop over LEVELS from index i (1-based), level so far
RECURSIVE LevelLoop(_, _, _)
LevelLoop(points, i, level) ==
    IF i > Len(LEVELS) THEN level
    ELSE IF points >= LEVELS[i] THEN LevelLoop(points, i + 1, i - 1)
    ELSE level

CalculateLevel(points) == LevelLoop(points, 1, 0)

\* _get_previous_level
GetPreviousLevel(current_points) ==
    CalculateLevel(IF current_points - 10 > 0 THEN current_points - 10 ELSE 0)

\* Point totals whose percentage is a tie between two tenths and whose binary
\* floating-point value (points_in / needed) * 100 lies off the tie on the
\* side of the odd tenth.
FloatTieToOdd ==
    {709, 715, 803, 807, 845, 849, 851, 855,
     3018, 3030, 3206, 3214, 3290, 3298, 3302, 3310}

\* round((num / den) * 100, 1) in tenths of a percent, for total cp
RoundTenths(num, den, cp) ==
    LET n == 1000 * num
        q == n \div den
        r == n % den
        even == IF q % 2 = 0 THEN q ELSE q + 1
        odd == IF q % 2 = 1 THEN q ELSE q + 1
    IN  IF 2 * r < den THEN q
        ELSE IF 2 * r > den THEN q + 1
        ELSE IF cp \in FloatTieToOdd THEN odd ELSE even

\* Variant: the next level's points are read at the current level's index
NextLevelPointsSameIndex(current_points) ==
    LEVELS[LevelLoop(current_points, 1, 0) + 1]

\* get_user_progress, lines 336-365: next_level_points and progress_percentage
NextLevelPoints(current_points) ==
    LET current_level == CalculateLevel(current_points)
    IN  IF current_level < Len(LEVELS) - 1
        THEN LEVELS[current_level + 2]
        ELSE LEVELS[current_level + 1]

ProgressTenths(current_points) ==
    LET current_level == CalculateLevel(current_points)
        current_level_points == LEVELS[current_level + 1]
        points_in_current_level == current_points - current_level_points
        points_needed_for_next == NextLevelPoints(current_points) - current_level_points
        raw == IF points_needed_for_next > 0
               THEN RoundTenths(points_in_current_level, points_needed_for_next, current_points)
               ELSE 1000
    IN  IF raw < 0 THEN 0 ELSE IF raw > 1000 THEN 1000 ELSE raw

----------------------------------------------------------------------------
(* GamificationService: streak, points, milestones, level *)

\* _start_new_streak; fails: update_user_stats raises (caught inside)
StartNewStreak(row, now, fails) ==
    IF fails
    THEN [row |-> row, streak_updated |-> FALSE, current_streak |-> 0,
          transition |-> "start"]
    ELSE [row |-> UpdateUserStats(row, 1, 1, 10, 1, IsoFormat(now)),
          streak_updated |-> TRUE, current_streak |-> 1,
          transition |-> "start"]

\* _maintain_streak
MaintainStreak(row) ==
    [row |-> row, streak_updated |-> FALSE,
     current_streak |-> row.current_streak, transition |-> "maintain"]

\* Variant: longest_streak is carried over instead of max(longest, new)
IncrementStreakKeepLongest(row, now, fails) ==
    LET new_streak == row.current_streak + 1
        streak_bonus == 10 + (IF new_streak < 7 THEN new_streak ELSE 7) * 2
    IN  IF fails
        THEN [row |-> row, streak_updated |-> FALSE,
              current_streak |-> row.current_streak, transition |-> "increment"]
        ELSE [row |-> UpdateUserStats(row, new_streak, row.longest_streak,
                                      row.total_points + streak_bonus,
                                      row.total_streak_days + 1, IsoFormat(now)),
              streak_updated |-> TRUE, current_streak |-> new_streak,
              transition |-> "increment"]

\* Variant: the per-day bonus is not capped at 7 days
IncrementStreakUncapped(row, now, fails) ==
    LET new_streak == row.current_streak + 1
        longest_streak == IF row.longest_streak >= new_streak
                          THEN row.longest_streak ELSE new_streak
        streak_bonus == 10 + new_streak * 2
    IN  IF fails
        THEN [row |-> row, streak_updated |-> FALSE,
              current_streak |-> row.current_streak, transition |-> "increment"]
        ELSE [row |-> UpdateUserStats(row, new_streak, longest_streak,
                                      row.total_points + streak_bonus,
                                      row.total_streak_days + 1, IsoFormat(now)),
              streak_updated |-> TRUE, current_streak |-> new_streak,
              transition |-> "increment"]

\* _increment_streak
IncrementStreak(row, now, fails) ==
    LET new_streak == row.current_streak + 1
        longest_streak == IF row.longest_streak >= new_streak
                          THEN row.longest_streak ELSE new_streak
        streak_bonus == 10 + (IF new_streak < 7 THEN new_streak ELSE 7) * 2
    IN  IF fails
        THEN [row |-> row, streak_updated |-> FALSE,
              current_streak |-> row.current_streak, transition |-> "increment"]
        ELSE [row |-> UpdateUserStats(row, new_streak, longest_streak,
                                      row.total_points + streak_bonus,
                                      row.total_streak_days + 1, IsoFormat(now)),
              streak_updated |-> TRUE, current_streak |-> new_streak,
              transition |-> "increment"]

\* Variant: a break restarts the streak at 1, counting today
HandleStreakBreakRestart(row, now, fails) ==
    IF fails
    THEN [row |-> row, streak_updated |-> FALSE, current_streak |-> 0,
          transition |-> "break"]
    ELSE [row |-> UpdateUserStats(row, 1, row.longest_streak, row.total_points,
                                  row.total_streak_days, IsoFormat(now)),
          streak_updated |-> TRUE, current_streak |-> 1,
          transition |-> "break"]

\* Variant: a break resets longest_streak together with current_streak
HandleStreakBreakForgetLongest(row, now, fails) ==
    IF fails
    THEN [row |-> row, streak_updated |-> FALSE, current_streak |-> 0,
          transition |-> "break"]
    ELSE [row |-> UpdateUserStats(row, 0, 0, row.total_points,
                                  row.total_streak_days, IsoFormat(now)),
          streak_updated |-> TRUE, current_streak |-> 0,
          transition |-> "break"]

\* _handle_streak_break
HandleStreakBreak(row, now, fails) ==
    IF fails
    THEN [row |-> row, streak_updated |-> FALSE, current_streak |-> 0,
          transition |-> "break"]
    ELSE [row |-> UpdateUserStats(row, 0, row.longest_streak, row.total_points,
                                  row.total_streak_days, IsoFormat(now)),
          streak_updated |-> TRUE, current_streak |-> 0,
          transition |-> "break"]

\* Variant: a gap of 0 days is not told apart from a gap of 1 day
ProcessStreakUpdateNoMaintain(row, now, fails) ==
    IF ~row.exists \/ DateIsFalsy(row.last_activity_date)
    THEN StartNewStreak(row, now, fails)
    ELSE LET last_active == ParseDate(row.last_activity_date, now)
             days_since_last == now - last_active
         IN  IF days_since_last = 0 \/ days_since_last = 1
             THEN IncrementStreak(row, now, fails)
             ELSE HandleStreakBreak(row, now, fails)

\* Variant: a date not before today counts as already active today
ProcessStreakUpdateNotBefore(row, now, fails) ==
    IF ~row.exists \/ DateIsFalsy(row.last_activity_date)
    THEN StartNewStreak(row, now, fails)
    ELSE LET last_active == ParseDate(row.last_activity_date, now)
             days_since_last == now - last_active
         IN  IF days_since_last <= 0 THEN MaintainStreak(row)
             ELSE IF days_since_last = 1 THEN IncrementStreak(row, now, fails)
             ELSE HandleStreakBreak(row, now, fails)

\* _process_streak_update, after its get_user_stats returned row
ProcessStreakUpdate(row, now, fails) ==
    IF ~row.exists \/ DateIsFalsy(row.last_activity_date)
    THEN StartNewStreak(row, now, fails)
    ELSE LET last_active == ParseDate(row.last_activity_date, now)
             days_since_last == now - last_active
         IN  IF days_since_last = 0 THEN MaintainStreak(row)
             ELSE IF days_since_last = 1 THEN IncrementStreak(row, now, fails)
             ELSE HandleStreakBreak(row, now, fails)

\* Variant: the rewrite of the row leaves last_activity_date out
AddPointsForgetDate(row, points, read_fails, write_fails) ==
    IF read_fails \/ write_fails THEN row
    ELSE IF row.exists
    THEN UpdateUserStats(row, row.current_streak, row.longest_streak,
                         row.total_points + points, row.total_streak_days, NullDate)
    ELSE row

\* _add_points; a failing read or write is logged and swallowed
AddPoints(row, points, read_fails, write_fails) ==
    IF read_fails \/ write_fails THEN row
    ELSE IF row.exists
    THEN UpdateUserStats(row, row.current_streak, row.longest_streak,
                         row.total_points + points, row.total_streak_days,
                         row.last_activity_date)
    ELSE row

\* _ensure_user_initialized and _create_initial_user_stats: the all-zero row
\* goes through update_user_stats
EnsureUserInitialized(row) ==
    IF ~row.exists THEN UpdateUserStats(row, 0, 0, 0, 0, NullDate) ELSE row

\* Variant: a milestone that has a record is not awarded again
CheckMilestonesOnce(row, ms, current_streak, F) ==
    IF current_streak \in DOMAIN STREAK_MILESTONES /\ current_streak \notin ms
    THEN [row |-> AddPoints(row, STREAK_MILESTONES[current_streak],
                            "ms_read" \in F, "ms_write" \in F),
          milestones |-> IF "ms_record" \in F THEN ms
                         ELSE AddStreakMilestone(ms, current_streak),
          achieved |-> TRUE, milestone_days |-> current_streak,
          points_earned |-> STREAK_MILESTONES[current_streak]]
    ELSE [row |-> row, milestones |-> ms, achieved |-> FALSE,
          milestone_days |-> 0, points_earned |-> 0]

\* Variant: a milestone fires for every streak at or above its day count
CheckMilestonesAtLeast(row, ms, current_streak, F) ==
    LET passed == {d \in DOMAIN STREAK_MILESTONES : d <= current_streak}
        days == CHOOSE d \in passed : \A e \in passed : e <= d
    IN  IF passed # {}
        THEN [row |-> AddPoints(row, STREAK_MILESTONES[days],
                                "ms_read" \in F, "ms_write" \in F),
              milestones |-> IF "ms_record" \in F THEN ms
                             ELSE AddStreakMilestone(ms, days),
              achieved |-> TRUE, milestone_days |-> days,
              points_earned |-> STREAK_MILESTONES[days]]
        ELSE [row |-> row, milestones |-> ms, achieved |-> FALSE,
              milestone_days |-> 0, points_earned |-> 0]

\* _check_milestones
CheckMilestones(row, ms, current_streak, F) ==
    IF current_streak \in DOMAIN STREAK_MILESTONES
    THEN [row |-> AddPoints(row, STREAK_MILESTONES[current_streak],
                            "ms_read" \in F, "ms_write" \in F),
          milestones |-> IF "ms_record" \in F THEN ms
                         ELSE AddStreakMilestone(ms, current_streak),
          achieved |-> TRUE, milestone_days |-> current_streak,
          points_earned |-> STREAK_MILESTONES[current_streak]]
    ELSE [row |-> row, milestones |-> ms, achieved |-> FALSE,
          milestone_days |-> 0, points_earned |-> 0]

\* Variant: _get_current_points answers with its fallback without reading the store
GetCurrentPointsUnread(row, fails) == 0

\* _get_current_points
GetCurrentPoints(row, fails) ==
    IF fails THEN 0 ELSE IF row.exists THEN row.total_points ELSE 0

----------------------------------------------------------------------------
(* Threads that call record_engagement *)

\* The Streamlit script thread (show_dashboard) and the daemon thread started
\* by TransactionService._trigger_gamification
ThreadIds == {"page", "background"}

\* action_type each thread passes
ThreadAction == [page |-> "dashboard_viewed", background |-> "transaction_added"]

\* metadata each thread passes: none, and {amount, category, emotion, type}
ThreadMetadata ==
    [page |-> NoMetadata,
     background |-> [truthy |-> TRUE, first_time |-> FALSE, consistent_week |-> FALSE]]

\* A thread outside record_engagement
IdleThread ==
    [pc |-> "idle", stats |-> NoRow, now |-> 0, transition |-> "none",
     current_streak |-> 0, points_earned |-> 0, points_total |-> 0,
     current_level |-> 0]

\* Nothing reported yet.  awarded: the points the threads' calls have
\* reported as streak bonus, points earned and milestone points; made: per
\* day, the calls with a valid action the threads have made.
NoTally == [awarded |-> 0, made |-> << >>]

\* One more call on day d in the tally made
CountCall(made, d) ==
    IF d \in DOMAIN made
    THEN [made EXCEPT ![d] = @ + 1]
    ELSE [e \in DOMAIN made \cup {d} |-> IF e = d THEN 1 ELSE made[e]]

IdleThreads == [t \in ThreadIds |-> IdleThread]

----------------------------------------------------------------------------
(* Return values *)

NoResult ==
    [returned |-> FALSE, success |-> FALSE, transition |-> "none",
     streak_updated |-> FALSE, streak_current |-> 0,
     points_earned |-> 0, points_base |-> 0, points_bonuses |-> 0, points_total |-> 0,
     milestone_achieved |-> FALSE, milestone_days |-> 0, milestone_points |-> 0,
     level_up |-> FALSE, current_level |-> 0, previous_level |-> 0]

\* _error_response
ErrorResponse == [NoResult EXCEPT !.returned = TRUE]

\* The exception of a store operation as it would leave record_engagement
Propagated == [NoResult EXCEPT !.transition = "raised"]

\* Variant: record_engagement has no except clause of its own
RecordEngagementReraise == Propagated

\* record_engagement: except Exception -> _error_response
RecordEngagementExcept == ErrorResponse

NoProgress ==
    [returned |-> FALSE, level |-> 0, points |-> 0, next_level_points |-> 0,
     progress_tenths |-> 0, streak_current |-> 0, streak_longest |-> 0,
     streak_total_days |-> 0, total_active_days |-> 0,
     freeze_available |-> FALSE, recovery_available |-> FALSE]

\* _get_default_progress
DefaultProgress ==
    [returned |-> TRUE, level |-> 0, points |-> 0, next_level_points |-> 100,
     progress_tenths |-> 0, streak_current |-> 0, streak_longest |-> 0,
     streak_total_days |-> 0, total_active_days |-> 0,
     freeze_available |-> TRUE, recovery_available |-> TRUE]

EmptyLedger == [d \in {} |-> 0]

NoCall ==
    [op |-> "none", action_type |-> "", metadata |-> NoMetadata, faults |-> {},
     day |-> 0, found |-> InitialRow, found_ledger |-> EmptyLedger,
     found_milestones |-> {}]

----------------------------------------------------------------------------
(* Operations *)

RECURSIVE SumCounts(_, _)
SumCounts(ledger, D) ==
    IF D = {} THEN 0
    ELSE LET d == CHOOSE x \in D : TRUE
         IN  ledger[d] + SumCounts(ledger, D \ {d})

\* get_user_engagement_stats: COUNT(DISTINCT activity_date)
TotalActiveDays(ledger) == Cardinality(DOMAIN ledger)

\* F is a set of store operations that can raise during one
\* record_engagement(action_type, ...) on row: only an operation the call
\* reaches raises, and a raise in the ledger write or in the streak read
\* ends the call.
FaultsOccur(row, now, action_type, F) ==
    LET streak_result == ProcessStreakUpdate(row, now, "streak_write" \in F)
    IN  /\ ~IsValidAction(action_type) => F = {}
        /\ "ledger" \in F => F = {"ledger"}
        /\ "streak_read" \in F => F = {"streak_read"}
        /\ "streak_write" \in F =>
               ProcessStreakUpdate(row, now, FALSE).transition # "maintain"
        /\ "points_write" \in F => "points_read" \notin F /\ row.exists
        /\ F \cap {"ms_read", "ms_write", "ms_record"} # {} =>
               streak_result.current_streak \in DOMAIN STREAK_MILESTONES
        /\ "ms_write" \in F => "ms_read" \notin F /\ row.exists

\* record_engagement(action_type, metadata); F: the store operations that raise
RecordEngagement(action_type, metadata, F) ==
    /\ call.op = "none"
    /\ FaultsOccur(user_stats, today, action_type, F)
    /\ call' = [op |-> "record_engagement", action_type |-> action_type,
                metadata |-> metadata, faults |-> F, day |-> today,
                found |-> user_stats, found_ledger |-> daily_engagement,
                found_milestones |-> streak_milestones]
    /\ today' = today
    /\ progress' = NoProgress
    /\ threads' = threads
    /\ tally' = tally
    /\ IF ~IsValidAction(action_type) \/ "ledger" \in F
       THEN /\ result' = IF "ledger" \in F THEN RecordEngagementExcept ELSE ErrorResponse
            /\ UNCHANGED <<user_stats, daily_engagement, streak_milestones>>
       ELSE IF "streak_read" \in F
       THEN /\ daily_engagement' = RecordDailyEngagement(daily_engagement, today)
            /\ result' = RecordEngagementExcept
            /\ UNCHANGED <<user_stats, streak_milestones>>
       ELSE LET streak_result == ProcessStreakUpdate(user_stats, today, "streak_write" \in F)
                base_points == BasePoints(action_type)
                bonuses == CalculateBonuses(metadata, today)
                total_points == base_points + bonuses
                row2 == AddPoints(streak_result.row, total_points,
                                  "points_read" \in F, "points_write" \in F)
                milestone_result == CheckMilestones(row2, streak_milestones,
                                                    streak_result.current_streak, F)
                row3 == milestone_result.row
                current_points == GetCurrentPoints(row3, "level_read" \in F)
                current_level == CalculateLevel(current_points)
                previous_level == GetPreviousLevel(current_points)
            IN  /\ daily_engagement' = RecordDailyEngagement(daily_engagement, today)
                /\ user_stats' = row3
                /\ streak_milestones' = milestone_result.milestones
                /\ result' =
                     [returned |-> TRUE, success |-> TRUE,
                      transition |-> streak_result.transition,
                      streak_updated |-> streak_result.streak_updated,
                      streak_current |-> streak_result.current_streak,
                      points_earned |-> total_points,
                      points_base |-> base_points,
                      points_bonuses |-> bonuses,
                      points_total |-> GetCurrentPoints(row3, "total_read" \in F),
                      milestone_achieved |-> milestone_result.achieved,
                      milestone_days |-> milestone_result.milestone_days,
                      milestone_points |-> milestone_result.points_earned,
                      level_up |-> current_level > previous_level,
                      current_level |-> current_level,
                      previous_level |-> previous_level]

ProgressFaultPoints == {"progress_read", "engagement_read"}

\* Variant: get_user_progress has no handler around the engagement statistics,
\* so their failure reaches the outer except
GetUserProgressOuterExcept(F) ==
    /\ call.op = "none"
    /\ "engagement_read" \in F => "progress_read" \notin F /\ user_stats.exists
    /\ call' = [NoCall EXCEPT !.op = "get_user_progress", !.faults = F,
                              !.day = today, !.found = user_stats,
                              !.found_ledger = daily_engagement,
                              !.found_milestones = streak_milestones]
    /\ result' = NoResult
    /\ progress' = DefaultProgress
    /\ UNCHANGED <<today, user_stats, daily_engagement, streak_milestones, threads, tally>>

\* get_user_progress; F: the store reads that raise
GetUserProgress(F) ==
    /\ call.op = "none"
    /\ "engagement_read" \in F => "progress_read" \notin F /\ user_stats.exists
    /\ call' = [NoCall EXCEPT !.op = "get_user_progress", !.faults = F,
                              !.day = today, !.found = user_stats,
                              !.found_ledger = daily_engagement,
                              !.found_milestones = streak_milestones]
    /\ result' = NoResult
    /\ progress' =
         IF "progress_read" \in F \/ ~user_stats.exists
         THEN DefaultProgress
         ELSE LET current_points == user_stats.total_points
              IN  [returned |-> TRUE,
                   level |-> CalculateLevel(current_points),
                   points |-> current_points,
                   next_level_points |-> NextLevelPoints(current_points),
                   progress_tenths |-> ProgressTenths(current_points),
                   streak_current |-> user_stats.current_streak,
                   streak_longest |-> user_stats.longest_streak,
                   streak_total_days |-> user_stats.total_streak_days,
                   total_active_days |-> IF "engagement_read" \in F THEN 0
                                         ELSE TotalActiveDays(daily_engagement),
                   freeze_available |-> ~user_stats.freeze_used_this_week,
                   recovery_available |-> ~user_stats.recovery_used_this_month]
    /\ UNCHANGED <<today, user_stats, daily_engagement, streak_milestones, threads, tally>>

\* GamificationService(user_id): __init__ runs _ensure_user_initialized; an
\* exception of the store read leaves the constructor
Construct(fails) ==
    /\ call.op = "none"
    /\ call' = [NoCall EXCEPT !.op = "construct",
                              !.faults = IF fails THEN {"init_read"} ELSE {},
                              !.day = today, !.found = user_stats,
                              !.found_ledger = daily_engagement,
                              !.found_milestones = streak_milestones]
    /\ user_stats' = IF fails THEN user_stats ELSE EnsureUserInitialized(user_stats)
    /\ result' = IF fails THEN Propagated ELSE NoResult
    /\ progress' = NoProgress
    /\ UNCHANGED <<today, daily_engagement, streak_milestones, threads, tally>>

\* The caller takes the returned Dict; the service keeps nothing of a call
Return ==
    /\ call.op # "none"
    /\ call' = NoCall
    /\ result' = NoResult
    /\ progress' = NoProgress
    /\ UNCHANGED <<today, user_stats, daily_engagement, streak_milestones, threads, tally>>

\* The calendar day advances between calls, up to day last
Tick(last) ==
    /\ call.op = "none"
    /\ today < last
    /\ today' = today + 1
    /\ UNCHANGED <<user_stats, daily_engagement, streak_milestones, call, result, progress,
                   threads, tally>>

----------------------------------------------------------------------------
(* The service on a new database *)

Init ==
    /\ today = 0
    /\ user_stats = InitialRow
    /\ daily_engagement = EmptyLedger
    /\ streak_milestones = {}
    /\ call = NoCall
    /\ result = NoResult
    /\ progress = NoProgress
    /\ threads = IdleThreads
    /\ tally = NoTally

\* Calls of every action type and metadata over a few days
Next ==
    \/ Tick(MaxDay)
    \/ /\ SumCounts(daily_engagement, DOMAIN daily_engagement) < MaxCalls
       /\ \E a \in ActionTypes, m \in MetadataValues, F \in FaultSets :
             RecordEngagement(a, m, F)
    \/ \E F \in SUBSET ProgressFaultPoints : GetUserProgress(F)
    \/ Return

Spec == Init /\ [][Next]_vars

\* Longer runs of days, with two valid and one invalid action type
StreakActions == {"transaction_added", "goal_checked", "unknown_action"}

NextStreak ==
    \/ Tick(MaxStreakDay)
    \/ /\ SumCounts(daily_engagement, DOMAIN daily_engagement) < MaxStreakCalls
       /\ \E a \in StreakActions, F \in FaultSets :
             RecordEngagement(a, NoMetadata, F)
    \/ Return

SpecStreak == Init /\ [][NextStreak]_vars

\* The date column of the user's row receives a text that is not a '%Y-%m-%d'
\* date: the column is unconstrained TEXT and _restore_backup_data copies
\* legacy values into it verbatim
CorruptDate ==
    /\ call.op = "none"
    /\ user_stats.exists
    /\ user_stats.last_activity_date.kind \in {"null", "iso"}
    /\ \E d \in {EmptyDate, UnparseableDate} :
           user_stats' = [user_stats EXCEPT !.last_activity_date = d]
    /\ UNCHANGED <<today, daily_engagement, streak_milestones, call, result, progress,
                   threads, tally>>

\* Calls over a few days on a row whose date column may have been damaged
NextCorrupt ==
    \/ Tick(MaxCorruptDay)
    \/ /\ SumCounts(daily_engagement, DOMAIN daily_engagement) < MaxCorruptCalls
       /\ \E a \in {"dashboard_viewed", "unknown_action"}, F \in FaultSets :
              RecordEngagement(a, NoMetadata, F)
    \/ CorruptDate
    \/ Return

SpecCorrupt == Init /\ [][NextCorrupt]_vars

\* A streak protection is used: the protection feature that the columns
\* freeze_used_this_week and recovery_used_this_month exist for, and whose
\* state _check_streak_protection and get_user_progress read, marks it in the user's
\* row.  The service itself never sets a flag.
UseProtection(flag) ==
    /\ call.op = "none"
    /\ user_stats.exists
    /\ ~user_stats[flag]
    /\ user_stats' = [user_stats EXCEPT ![flag] = TRUE]
    /\ UNCHANGED <<today, daily_engagement, streak_milestones, call, result, progress,
                   threads, tally>>

\* Calls over a few days on a row whose protections may have been used
NextProtect ==
    \/ Tick(MaxProtectDay)
    \/ /\ SumCounts(daily_engagement, DOMAIN daily_engagement) < MaxProtectCalls
       /\ \E a \in {"dashboard_viewed", "unknown_action"}, F \in FaultSets :
              RecordEngagement(a, NoMetadata, F)
    \/ \E flag \in {"freeze_used_this_week", "recovery_used_this_month"} :
           UseProtection(flag)
    \/ Return

SpecProtect == Init /\ [][NextProtect]_vars

\* date.today() answers an earlier day than before: the system clock was set
\* back, or the time zone of the machine changed
ClockBack ==
    /\ call.op = "none"
    /\ today > 0
    /\ today' = today - 1
    /\ UNCHANGED <<user_stats, daily_engagement, streak_milestones, call, result, progress,
                   threads, tally>>

\* Calls over a few days of a clock that can also go back
NextClock ==
    \/ Tick(MaxClockDay)
    \/ ClockBack
    \/ /\ SumCounts(daily_engagement, DOMAIN daily_engagement) < MaxClockCalls
       /\ \E a \in {"dashboard_viewed", "unknown_action"}, F \in FaultSets :
              RecordEngagement(a, NoMetadata, F)
    \/ Return

SpecClock == Init /\ [][NextClock]_vars

----------------------------------------------------------------------------
(* record_engagement in threads: one step per store operation.  Every       *)
(* Database method opens its own connection and commits, so each store     *)
(* operation is atomic and nothing spans two of them.  stats and now are   *)
(* locals of the helper that read them and end with it.                    *)

ThreadUnchanged == UNCHANGED <<today, call, result, progress>>

\* record_engagement entered; _is_valid_action passes for both threads' actions
BeginCall(t) ==
    /\ threads[t].pc = "idle"
    /\ IsValidAction(ThreadAction[t])
    /\ threads' = [threads EXCEPT ![t] = [IdleThread EXCEPT !.pc = "ledger"]]
    /\ UNCHANGED <<user_stats, daily_engagement, streak_milestones>>
    /\ tally' = tally
    /\ ThreadUnchanged

\* record_engagement("app_loaded") of AhorifyApp.run in the script thread:
\* _is_valid_action fails and the error response is returned
RejectCall(t) ==
    /\ threads[t].pc = "idle"
    /\ t = "page"
    /\ ~IsValidAction("app_loaded")
    /\ threads' = [threads EXCEPT ![t] = [@ EXCEPT !.pc = "done", !.transition = "rejected"]]
    /\ UNCHANGED <<user_stats, daily_engagement, streak_milestones>>
    /\ tally' = tally
    /\ ThreadUnchanged

\* Variant: the ledger row of the day is replaced (INSERT OR REPLACE), not
\* incremented
WriteLedgerReplace(t) ==
    /\ threads[t].pc = "ledger"
    /\ daily_engagement' =
           [d \in DOMAIN daily_engagement \cup {today} |->
               IF d = today THEN 1 ELSE daily_engagement[d]]
    /\ threads' = [threads EXCEPT ![t].pc = "streak_read"]
    /\ tally' = [tally EXCEPT !.made = CountCall(@, today)]
    /\ UNCHANGED <<user_stats, streak_milestones>>
    /\ ThreadUnchanged

\* db.record_daily_engagement
WriteLedger(t) ==
    /\ threads[t].pc = "ledger"
    /\ daily_engagement' = RecordDailyEngagement(daily_engagement, today)
    /\ threads' = [threads EXCEPT ![t].pc = "streak_read"]
    /\ tally' = [tally EXCEPT !.made = CountCall(@, today)]
    /\ UNCHANGED <<user_stats, streak_milestones>>
    /\ ThreadUnchanged

\* _process_streak_update: date.today(), db.get_user_stats and the dispatch;
\* _maintain_streak writes nothing
ReadStreak(t) ==
    /\ threads[t].pc = "streak_read"
    /\ LET streak_result == ProcessStreakUpdate(user_stats, today, FALSE)
       IN  threads' = [threads EXCEPT ![t] =
                IF streak_result.transition = "maintain"
                THEN [@ EXCEPT !.transition = "maintain",
                               !.current_streak = streak_result.current_streak,
                               !.pc = "points_read"]
                ELSE [@ EXCEPT !.stats = user_stats, !.now = today,
                               !.transition = streak_result.transition,
                               !.current_streak = streak_result.current_streak,
                               !.pc = "streak_write"]]
    /\ UNCHANGED <<user_stats, daily_engagement, streak_milestones>>
    /\ tally' = tally
    /\ ThreadUnchanged

\* db.update_user_stats of _start_new_streak, _increment_streak or
\* _handle_streak_break, with the values computed from the row read before
WriteStreak(t) ==
    /\ threads[t].pc = "streak_write"
    /\ LET streak_result == ProcessStreakUpdate(threads[t].stats, threads[t].now, FALSE)
           written == streak_result.row
           bonus == IF streak_result.transition = "start" THEN 10
                    ELSE IF streak_result.transition = "increment"
                    THEN written.total_points - threads[t].stats.total_points
                    ELSE 0
       IN  /\ user_stats' = UpdateUserStats(user_stats, written.current_streak,
                                            written.longest_streak, written.total_points,
                                            written.total_streak_days,
                                            written.last_activity_date)
           /\ threads' = [threads EXCEPT ![t] =
                    [@ EXCEPT !.pc = "points_read", !.stats = NoRow, !.now = 0]]
           /\ tally' = [tally EXCEPT !.awarded = @ + bonus]
    /\ UNCHANGED <<daily_engagement, streak_milestones>>
    /\ ThreadUnchanged

\* _calculate_points and the db.get_user_stats of _add_points
ReadPoints(t) ==
    /\ threads[t].pc = "points_read"
    /\ threads' = [threads EXCEPT ![t] =
            [@ EXCEPT !.stats = user_stats,
                      !.points_earned = BasePoints(ThreadAction[t])
                                        + CalculateBonuses(ThreadMetadata[t], today),
                      !.pc = "points_write"]]
    /\ UNCHANGED <<user_stats, daily_engagement, streak_milestones>>
    /\ tally' = tally
    /\ ThreadUnchanged

\* the db.update_user_stats of _add_points
WritePoints(t) ==
    /\ threads[t].pc = "points_write"
    /\ tally' = [tally EXCEPT !.awarded = @ + threads[t].points_earned]
    /\ LET written == AddPoints(threads[t].stats, threads[t].points_earned, FALSE, FALSE)
       IN  user_stats' = UpdateUserStats(user_stats, written.current_streak,
                                         written.longest_streak, written.total_points,
                                         written.total_streak_days,
                                         written.last_activity_date)
    /\ threads' = [threads EXCEPT ![t] =
            [@ EXCEPT !.stats = NoRow,
                      !.pc = IF threads[t].current_streak \in DOMAIN STREAK_MILESTONES
                             THEN "ms_read" ELSE "level_read"]]
    /\ UNCHANGED <<daily_engagement, streak_milestones>>
    /\ ThreadUnchanged

\* _check_milestones: the db.get_user_stats of its _add_points
ReadMilestonePoints(t) ==
    /\ threads[t].pc = "ms_read"
    /\ threads' = [threads EXCEPT ![t] = [@ EXCEPT !.stats = user_stats, !.pc = "ms_write"]]
    /\ UNCHANGED <<user_stats, daily_engagement, streak_milestones>>
    /\ tally' = tally
    /\ ThreadUnchanged

\* _check_milestones: the db.update_user_stats of its _add_points
WriteMilestonePoints(t) ==
    /\ threads[t].pc = "ms_write"
    /\ LET points == STREAK_MILESTONES[threads[t].current_streak]
           written == AddPoints(threads[t].stats, points, FALSE, FALSE)
       IN  /\ user_stats' = UpdateUserStats(user_stats, written.current_streak,
                                            written.longest_streak, written.total_points,
                                            written.total_streak_days,
                                            written.last_activity_date)
           /\ threads' = [threads EXCEPT ![t] =
                    [@ EXCEPT !.stats = NoRow, !.pc = "ms_record"]]
           /\ tally' = [tally EXCEPT !.awarded = @ + points]
    /\ UNCHANGED <<daily_engagement, streak_milestones>>
    /\ ThreadUnchanged

\* _check_milestones: db.add_streak_milestone
RecordMilestone(t) ==
    /\ threads[t].pc = "ms_record"
    /\ streak_milestones' = AddStreakMilestone(streak_milestones, threads[t].current_streak)
    /\ threads' = [threads EXCEPT ![t].pc = "level_read"]
    /\ UNCHANGED <<user_stats, daily_engagement>>
    /\ tally' = tally
    /\ ThreadUnchanged

\* _check_level_progression: _get_current_points
ReadLevel(t) ==
    /\ threads[t].pc = "level_read"
    /\ threads' = [threads EXCEPT ![t] =
            [@ EXCEPT !.current_level = CalculateLevel(GetCurrentPoints(user_stats, FALSE)),
                      !.pc = "total_read"]]
    /\ UNCHANGED <<user_stats, daily_engagement, streak_milestones>>
    /\ tally' = tally
    /\ ThreadUnchanged

\* _consolidate_results: _get_current_points
ReadTotal(t) ==
    /\ threads[t].pc = "total_read"
    /\ threads' = [threads EXCEPT ![t] =
            [@ EXCEPT !.points_total = GetCurrentPoints(user_stats, FALSE),
                      !.pc = "done"]]
    /\ UNCHANGED <<user_stats, daily_engagement, streak_milestones>>
    /\ tally' = tally
    /\ ThreadUnchanged

\* record_engagement returns to the thread
EndCall(t) ==
    /\ threads[t].pc = "done"
    /\ threads' = [threads EXCEPT ![t] = IdleThread]
    /\ UNCHANGED <<user_stats, daily_engagement, streak_milestones>>
    /\ tally' = tally
    /\ ThreadUnchanged

\* Calls begun so far, over all threads
CallsBegun ==
    SumCounts(daily_engagement, DOMAIN daily_engagement)
    + Cardinality({t \in ThreadIds : threads[t].pc = "ledger"})

\* The page thread and the background thread over a few days
NextConc ==
    \/ Tick(MaxConcDay)
    \/ \E t \in ThreadIds :
          \/ CallsBegun < MaxConcCalls /\ BeginCall(t)
          \/ RejectCall(t)
          \/ WriteLedger(t)
          \/ ReadStreak(t)
          \/ WriteStreak(t)
          \/ ReadPoints(t)
          \/ WritePoints(t)
          \/ ReadMilestonePoints(t)
          \/ WriteMilestonePoints(t)
          \/ RecordMilestone(t)
          \/ ReadLevel(t)
          \/ ReadTotal(t)
          \/ EndCall(t)

SpecConc == Init /\ [][NextConc]_vars

\* A service constructed for 'default_user', whose row _insert_initial_data
\* has inserted, or for another user id, which has no row
InitUser ==
    /\ today = 0
    /\ \E row \in {InitialRow, NoRow} : user_stats = EnsureUserInitialized(row)
    /\ daily_engagement = EmptyLedger
    /\ streak_milestones = {}
    /\ call = NoCall
    /\ result = NoResult
    /\ progress = NoProgress
    /\ threads = IdleThreads
    /\ tally = NoTally

\* Pages that construct the service, record engagement and show progress
NextUser ==
    \/ Tick(MaxUserDay)
    \/ /\ SumCounts(daily_engagement, DOMAIN daily_engagement) < MaxUserCalls
       /\ \E a \in {"dashboard_viewed", "weekly_review_completed", "unknown_action"},
             m \in MetadataValues, F \in FaultSets :
              RecordEngagement(a, m, F)
    \/ \E F \in SUBSET ProgressFaultPoints : GetUserProgress(F)
    \/ \E fails \in BOOLEAN : Construct(fails)
    \/ Return

SpecUser == InitUser /\ [][NextUser]_vars

\* show_dashboard on consecutive days: streaks of a week and more, no store
\* failure
NextLong ==
    \/ Tick(MaxLongDay)
    \/ /\ SumCounts(daily_engagement, DOMAIN daily_engagement) < MaxLongCalls
       /\ RecordEngagement("dashboard_viewed", NoMetadata, {})
    \/ Return

SpecLong == Init /\ [][NextLong]_vars

(* The level resolver and the progress projection over all point totals *)

InitLevel ==
    /\ today = 0
    /\ \E p \in 0..MaxPoints : user_stats = [InitialRow EXCEPT !.total_points = p]
    /\ daily_engagement = EmptyLedger
    /\ streak_milestones = {}
    /\ call = NoCall
    /\ result = NoResult
    /\ progress = NoProgress
    /\ threads = IdleThreads
    /\ tally = NoTally

NextLevel ==
    \/ \E F \in SUBSET ProgressFaultPoints : GetUserProgress(F)
    \/ Return

SpecLevel == InitLevel /\ [][NextLevel]_vars

----------------------------------------------------------------------------
(* Properties *)

Max(a, b) == IF a >= b THEN a ELSE b

\* The last step was a record_engagement call
Recorded == call.op = "record_engagement"

\* ... with an action type the code validates, none of whose store operations raised
RecordedClean == Recorded /\ IsValidAction(call.action_type) /\ call.faults = {}

\* The points of the call's action: base points plus bonuses
ActionPoints == BasePoints(call.action_type) + CalculateBonuses(call.metadata, call.day)

\* C1: same-day idempotence.  When the stored last_activity_date is today, a
\* record_engagement call with a valid action type leaves current_streak as
\* it was, and a call that returns success reports the Maintain transition.
C1_SameDayMaintain ==
    (/\ Recorded
     /\ call.action_type \in ConfiguredActions \cup CustomActions
     /\ call.found.exists
     /\ call.found.last_activity_date = IsoFormat(call.day))
    => /\ user_stats.current_streak = call.found.current_streak
       /\ result.success =>
            /\ result.transition = "maintain"
            /\ ~result.streak_updated
            /\ result.streak_current = call.found.current_streak

C1_Witness ==
    /\ Recorded
    /\ call.action_type \in ConfiguredActions \cup CustomActions
    /\ call.found.last_activity_date = IsoFormat(call.day)
    /\ call.found.current_streak >= 1
    /\ result.success
    /\ result.transition = "maintain"
    /\ user_stats.total_points > call.found.total_points

\* C2: monotonic longest streak.  After every record_engagement call (valid
\* or invalid action type, the day never going back) longest_streak is at
\* least what it was before the call.
C2_LongestStreakMonotonic ==
    Recorded => user_stats.longest_streak >= call.found.longest_streak

C2_Witness ==
    /\ Recorded
    /\ result.success
    /\ result.transition = "break"
    /\ result.streak_updated
    /\ call.found.longest_streak >= 2
    /\ user_stats.longest_streak = call.found.longest_streak

\* C3: streak break.  A call with a valid action, two or more days after the
\* stored last_activity_date, sets current_streak to 0 whatever it was, keeps
\* longest_streak, sets last_activity_date to today and adds to total_points
\* the action's own points only.
C3_StreakBreak ==
    (/\ RecordedClean
     /\ call.found.exists
     /\ call.found.last_activity_date.kind = "iso"
     /\ call.day - call.found.last_activity_date.day >= 2)
    => /\ user_stats.current_streak = 0
       /\ user_stats.longest_streak = call.found.longest_streak
       /\ user_stats.total_streak_days = call.found.total_streak_days
       /\ user_stats.last_activity_date = IsoFormat(call.day)
       /\ user_stats.total_points = call.found.total_points + ActionPoints
       /\ result.success
       /\ ~result.milestone_achieved

C3_Witness ==
    /\ RecordedClean
    /\ call.found.last_activity_date.kind = "iso"
    /\ call.day - call.found.last_activity_date.day >= 2
    /\ call.found.current_streak >= 2
    /\ user_stats.current_streak = 0
    /\ user_stats.last_activity_date = IsoFormat(call.day)

\* C4: points and streak-days never decrease.  After every record_engagement
\* call total_points and total_streak_days are at least what they were
\* before the call.
C4_PointsNeverDecrease ==
    Recorded =>
        /\ user_stats.total_points >= call.found.total_points
        /\ user_stats.total_streak_days >= call.found.total_streak_days

\* C5: in every stored state current_streak <= longest_streak.
C5_CurrentAtMostLongest ==
    user_stats.current_streak <= user_stats.longest_streak

C5_Witness ==
    /\ Recorded
    /\ result.transition = "increment"
    /\ result.streak_updated
    /\ call.found.current_streak = call.found.longest_streak
    /\ user_stats.current_streak >= 3
    /\ user_stats.current_streak = user_stats.longest_streak

\* The last step was a get_user_progress call whose reads all succeeded
Projected == call.op = "get_user_progress" /\ call.faults = {} /\ progress.returned

\* C6: level consistency.  The level resolved for total_points is an index of
\* the ten-tier table whose threshold is at most total_points, and it is the
\* top level 9 or total_points is below the next threshold.
C6_LevelConsistency ==
    Projected =>
        /\ progress.level \in 0..9
        /\ progress.points = call.found.total_points
        /\ LEVELS[progress.level + 1] <= progress.points
        /\ progress.level = 9 \/ progress.points < LEVELS[progress.level + 2]

C6_Witness ==
    /\ Projected
    /\ progress.points = 1000
    /\ progress.level = 4

\* C7 as stated: progress_percentage is between 0 and 100, is exactly
\* (total_points - thresholds[level]) * 100 / (thresholds[level+1] -
\* thresholds[level]) below the top tier, and is 100 at the top tier.
C7_ProgressExact ==
    Projected =>
        /\ 0 <= progress.progress_tenths /\ progress.progress_tenths <= 1000
        /\ progress.level = 9 => progress.progress_tenths = 1000
        /\ progress.level < 9 =>
             progress.progress_tenths * (LEVELS[progress.level + 2] - LEVELS[progress.level + 1])
               = 1000 * (progress.points - LEVELS[progress.level + 1])

\* C7 amended: progress_percentage is between 0 and 100, below the top tier
\* it is that quotient rounded to one decimal place (within 0.05 of it; 250
\* points give level 1 and 75.0), and it is 100 at the top tier.
C7_ProgressRounded ==
    Projected =>
        LET lower == LEVELS[progress.level + 1]
            exact1000 == 1000 * (progress.points - lower)
        IN  /\ 0 <= progress.progress_tenths /\ progress.progress_tenths <= 1000
            /\ progress.level = 9 => progress.progress_tenths = 1000
            /\ progress.level < 9 =>
                 LET needed == LEVELS[progress.level + 2] - lower
                     scaled == progress.progress_tenths * needed
                 IN  /\ 2 * (scaled - exact1000) <= needed
                     /\ 2 * (exact1000 - scaled) <= needed
            /\ progress.points = 250 =>
                 progress.level = 1 /\ progress.progress_tenths = 750

C7_Witness ==
    /\ Projected
    /\ progress.points = 301
    /\ progress.level = 2
    /\ progress.progress_tenths = 3

\* C8: validation rejects without side effects.  A call whose action type is
\* neither a recognized one nor a custom_ tag returns an error result and
\* leaves the stats row, the ledger and the milestone records as they were.
C8_InvalidActionNoEffect ==
    (/\ Recorded
     /\ call.action_type \notin ConfiguredActions \cup {"app_loaded"}
     /\ call.action_type \notin CustomActions)
    => /\ result.returned
       /\ ~result.success
       /\ user_stats = call.found
       /\ daily_engagement = call.found_ledger
       /\ streak_milestones = call.found_milestones

C8_Witness ==
    /\ Recorded
    /\ call.action_type = "unknown_action"
    /\ result.returned
    /\ ~result.success
    /\ call.found.total_points > 0
    /\ DOMAIN call.found_ledger # {}

\* C9: every action type of the enumerated set, "app_loaded" included, passes
\* validation: a call with it whose store operations all succeed returns
\* success and is counted in the ledger.
C9_EnumeratedActionsSucceed ==
    (/\ Recorded
     /\ call.action_type \in ConfiguredActions \cup {"app_loaded"}
     /\ call.faults = {})
    => /\ result.success
       /\ daily_engagement = RecordDailyEngagement(call.found_ledger, call.day)

\* C10: Start transition.  A call with a valid action on a row whose
\* last_activity_date is null leaves current_streak = 1, longest_streak =
\* max(previous, 1), total_streak_days = previous + 1, last_activity_date =
\* today and total_points = previous + 10 + the action's points.
C10_StartTransition ==
    (/\ RecordedClean
     /\ call.found.exists
     /\ call.found.last_activity_date = NullDate)
    => /\ user_stats.current_streak = 1
       /\ user_stats.longest_streak = Max(call.found.longest_streak, 1)
       /\ user_stats.total_streak_days = call.found.total_streak_days + 1
       /\ user_stats.last_activity_date = IsoFormat(call.day)
       /\ user_stats.total_points = call.found.total_points + 10 + ActionPoints

\* The streak-step points of an Increment to a streak of n days
StreakStepPoints(n) == 10 + 2 * (IF n < 7 THEN n ELSE 7)

\* The last call found a row whose date is the day before the call
FoundYesterday ==
    /\ RecordedClean
    /\ call.found.exists
    /\ call.found.last_activity_date = IsoFormat(call.day - 1)

\* C11 as stated: Increment transition.  A call with a valid action one day
\* after the stored last_activity_date raises current_streak by 1 to n, sets
\* longest_streak to max(longest_streak, n), raises total_streak_days by 1,
\* sets last_activity_date to today and raises total_points by
\* 10 + 2 * min(n, 7) plus the action's own points.
C11_IncrementExact ==
    FoundYesterday =>
        LET n == call.found.current_streak + 1
        IN  /\ user_stats.current_streak = n
            /\ user_stats.longest_streak = Max(call.found.longest_streak, n)
            /\ user_stats.total_streak_days = call.found.total_streak_days + 1
            /\ user_stats.last_activity_date = IsoFormat(call.day)
            /\ user_stats.total_points =
                 call.found.total_points + StreakStepPoints(n) + ActionPoints

\* C11 amended: as above, and total_points rises by 10 + 2 * min(n, 7) plus
\* the action's own points plus, when n is one of the milestones 3, 7, 14,
\* 30, 90, that milestone's points.
C11_IncrementWithMilestone ==
    FoundYesterday =>
        LET n == call.found.current_streak + 1
        IN  /\ user_stats.current_streak = n
            /\ user_stats.longest_streak = Max(call.found.longest_streak, n)
            /\ user_stats.total_streak_days = call.found.total_streak_days + 1
            /\ user_stats.last_activity_date = IsoFormat(call.day)
            /\ user_stats.total_points =
                 call.found.total_points + StreakStepPoints(n) + ActionPoints
                 + (IF n \in MilestoneDays THEN STREAK_MILESTONES[n] ELSE 0)
            /\ n = 2 => user_stats.total_points = call.found.total_points + 14 + ActionPoints

C11_Witness ==
    /\ FoundYesterday
    /\ call.found.current_streak = 7
    /\ user_stats.current_streak = 8
    /\ user_stats.total_points = call.found.total_points + 24 + 5

\* The last call found a non-empty stored date that cannot be parsed
FoundUnparseable ==
    /\ RecordedClean
    /\ call.found.exists
    /\ call.found.last_activity_date = UnparseableDate

\* C12: Unparseable date fails open.  When the stored last_activity_date is
\* non-null but cannot be parsed as a date, a call with a valid action takes
\* the Start transition: it succeeds, current_streak becomes 1 and
\* last_activity_date becomes today.
C12_UnparseableDateStarts ==
    FoundUnparseable =>
        /\ result.success
        /\ result.transition = "start"
        /\ user_stats.current_streak = 1
        /\ user_stats.last_activity_date = IsoFormat(call.day)

\* C13: Milestone fires once.  The bonus of milestone m is awarded only when
\* the streak after the transition equals m and no milestone record for m
\* exists yet; once the streak is 3, further calls on the same day (Maintain,
\* streak still 3) do not add the 25 points again.
C13_MilestoneFiresOnce ==
    RecordedClean =>
        /\ result.milestone_achieved =>
               /\ result.milestone_days = user_stats.current_streak
               /\ result.milestone_days \notin call.found_milestones
        /\ (result.transition = "maintain" /\ call.found.current_streak = 3) =>
               user_stats.total_points = call.found.total_points + ActionPoints

\* The points the streak transition of the last call adds
TransitionPoints ==
    IF result.transition = "increment"
    THEN StreakStepPoints(user_stats.current_streak) ELSE 0

Quiescent == \A t \in ThreadIds : threads[t].pc = "idle"

\* The points reported as awarded by all calls made so far
Awarded == tally.awarded

\* C15: No lost update under concurrency.  When concurrent record_engagement
\* calls on the same user have all completed, total_points is the total before
\* them plus the sum of the points awarded by the calls (0 on the new row).
C15_NoLostUpdate ==
    Quiescent => user_stats.total_points = Awarded

\* C16: All-or-nothing on store failure.  If a store read or write fails
\* during a call, the call returns failure and the row, the ledger and the
\* milestone records are exactly as before the call; no call returns success
\* while an award it computed was not persisted.
C16_AllOrNothing ==
    Recorded =>
        /\ call.faults # {} =>
               /\ ~result.success
               /\ user_stats = call.found
               /\ daily_engagement = call.found_ledger
               /\ streak_milestones = call.found_milestones
        /\ (result.success /\ call.found.last_activity_date # NullDate) =>
               user_stats.total_points >=
                   call.found.total_points + result.points_earned + result.milestone_points

\* C17: record_engagement never propagates a fault.  Whatever the action
\* type, the metadata and the store operation that fails, the call returns a
\* result value (success or failure) to its caller.
C17_AlwaysReturns ==
    Recorded =>
        /\ result.returned
        /\ result.transition # "raised"
        /\ ~result.success => result = ErrorResponse

C17_Witness ==
    /\ Recorded
    /\ IsValidAction(call.action_type)
    /\ call.faults = {"streak_read"}
    /\ result.returned
    /\ ~result.success
    /\ daily_engagement # call.found_ledger

\* The snapshot get_user_progress computes from the row the last call found,
\* with the given engagement statistics
SnapshotOf(row, total_active_days) ==
    [returned |-> TRUE,
     level |-> CalculateLevel(row.total_points),
     points |-> row.total_points,
     next_level_points |-> NextLevelPoints(row.total_points),
     progress_tenths |-> ProgressTenths(row.total_points),
     streak_current |-> row.current_streak,
     streak_longest |-> row.longest_streak,
     streak_total_days |-> row.total_streak_days,
     total_active_days |-> total_active_days,
     freeze_available |-> ~row.freeze_used_this_week,
     recovery_available |-> ~row.recovery_used_this_month]

\* The last call was get_user_progress
ProjectedAny == call.op = "get_user_progress"

\* The stored state is as the last call found it
StoreUnchanged ==
    /\ user_stats = call.found
    /\ daily_engagement = call.found_ledger
    /\ streak_milestones = call.found_milestones

\* C18 as stated: get_user_progress is a total, read-only projection.  When
\* the user's row is missing or any store read fails it returns the default
\* snapshot (level 0, 0 points, next_level_points 100, progress 0, streak
\* 0/0/0, both protections available), and it never changes the stored state.
C18_DefaultOnAnyFailure ==
    ProjectedAny =>
        /\ progress.returned
        /\ StoreUnchanged
        /\ (~call.found.exists \/ call.faults # {}) => progress = DefaultProgress

\* C18 amended: get_user_progress always returns a snapshot and never changes
\* the stored state.  It returns the default snapshot when the user's row is
\* missing or the read of the row fails; when only the read of the engagement
\* statistics fails it returns the snapshot of the stored row with the
\* engagement statistics set to 0.
C18_TotalReadOnly ==
    ProjectedAny =>
        /\ progress.returned
        /\ StoreUnchanged
        /\ (~call.found.exists \/ "progress_read" \in call.faults) =>
               progress = DefaultProgress
        /\ (call.found.exists /\ call.faults = {"engagement_read"}) =>
               progress = SnapshotOf(call.found, 0)
        /\ (call.found.exists /\ call.faults = {}) =>
               progress = SnapshotOf(call.found, TotalActiveDays(call.found_ledger))

C18_Witness ==
    /\ ProjectedAny
    /\ call.found.exists
    /\ call.faults = {"engagement_read"}
    /\ call.found_ledger # EmptyLedger
    /\ progress.points > 0
    /\ progress.total_active_days = 0
    /\ progress # DefaultProgress

C18_WitnessMissingRow ==
    /\ ProjectedAny
    /\ ~call.found.exists
    /\ call.found_ledger # EmptyLedger
    /\ progress = DefaultProgress

\* C20: Lazy creation.  For any user id, after the service is constructed and
\* the first valid record_engagement call is made, exactly one row of that
\* user exists and holds the results of the call (current_streak = 1,
\* last_activity_date = today); later calls never create a second row.
C20_LazyCreation ==
    (RecordedClean /\ call.found_ledger = EmptyLedger) =>
        /\ user_stats.exists
        /\ user_stats.current_streak = 1
        /\ user_stats.last_activity_date = IsoFormat(call.day)

\* The points the last call added to the stored total
AwardedInCall == user_stats.total_points - call.found.total_points

\* C19: Level-up detection.  level_up is true exactly when the level of the
\* total after the call differs from the level of that total minus the
\* points awarded in the call, whatever the size of the award.
C19_LevelUpDetection ==
    (RecordedClean /\ result.success) =>
        (result.level_up <=>
            CalculateLevel(user_stats.total_points)
                # CalculateLevel(user_stats.total_points - AwardedInCall))

\* The last call completed a Start, Increment or Break transition
TransitionCompleted == Recorded /\ result.success /\ result.streak_updated

ActiveDays == DOMAIN daily_engagement

\* The number of consecutive active days ending at day d
RECURSIVE ConsecutiveRun(_)
ConsecutiveRun(d) ==
    IF d \in ActiveDays THEN 1 + ConsecutiveRun(d - 1) ELSE 0

\* The first day of the run of active days ending at day d
RunStart(d) == d - ConsecutiveRun(d) + 1

\* C22 as stated: current_streak equals the number of consecutive calendar
\* days, ending at last_activity_date, with at least one valid call each;
\* the day of the return after a gap is counted.
C22_StreakCountsActiveDays ==
    user_stats.last_activity_date.kind = "iso" =>
        user_stats.current_streak = ConsecutiveRun(user_stats.last_activity_date.day)

\* What the code keeps instead: current_streak equals that number when the
\* run began with the user's first active day, and one less when the run
\* began with a return after a gap (the day of the return sets the streak to
\* 0 and is not counted).
C22_StreakCountsSinceBreak ==
    user_stats.last_activity_date.kind = "iso" =>
        LET d == user_stats.last_activity_date.day
            returned == \E e \in ActiveDays : e < RunStart(d)
        IN  /\ d \in ActiveDays
            /\ user_stats.current_streak =
                 IF returned THEN ConsecutiveRun(d) - 1 ELSE ConsecutiveRun(d)

C22_Witness ==
    /\ RecordedClean
    /\ ActiveDays = {0, 1, 4, 5, 6}
    /\ user_stats.last_activity_date = IsoFormat(6)
    /\ user_stats.current_streak = 2
    /\ user_stats.longest_streak = 2

\* The last call brought the streak back, by an Increment, to a milestone
\* that already has a record
RebuiltToMilestone ==
    /\ RecordedClean
    /\ result.transition = "increment"
    /\ user_stats.current_streak \in call.found_milestones

\* C23: Milestone re-award after rebuild.  When a user who was awarded
\* milestone m breaks the streak and rebuilds it by calls on consecutive days,
\* the call that brings current_streak back to m awards the points of m again
\* and leaves a single milestone record for m.
C23_ReawardAfterRebuild ==
    RebuiltToMilestone =>
        LET m == user_stats.current_streak
        IN  /\ result.milestone_achieved
            /\ result.milestone_days = m
            /\ result.milestone_points = STREAK_MILESTONES[m]
            /\ user_stats.total_points =
                 call.found.total_points + StreakStepPoints(m) + ActionPoints
                 + STREAK_MILESTONES[m]
            /\ streak_milestones = call.found_milestones
            /\ Cardinality({r \in streak_milestones : r = m}) = 1

C23_Witness ==
    /\ RebuiltToMilestone
    /\ user_stats.current_streak = 3
    /\ user_stats.longest_streak = 3
    /\ user_stats.total_streak_days = 6
    /\ ActiveDays = {0, 1, 2, 4, 5, 6, 7}
    /\ user_stats.total_points = call.found.total_points + 16 + 5 + 25

\* C24: Bonuses are independent and cumulative.  The bonus part of the action
\* points is 10 if the first-time flag is set, plus 20 if the consistent-week
\* flag is set, plus 5 if today is a weekend day; the weekend bonus is added
\* on a weekend call even when no metadata, or an empty one, is passed.
C24_BonusesIndependent ==
    (RecordedClean /\ result.success) =>
        result.points_bonuses =
            (IF call.metadata.first_time THEN 10 ELSE 0)
            + (IF call.metadata.consistent_week THEN 20 ELSE 0)
            + (IF Weekday(call.day) >= 5 THEN 5 ELSE 0)

\* The calls with a valid action the threads made on day d
CallsMadeOn(d) == IF d \in DOMAIN tally.made THEN tally.made[d] ELSE 0

C26_FlagsUntouched ==
    Recorded =>
        /\ user_stats.freeze_used_this_week = call.found.freeze_used_this_week
        /\ user_stats.recovery_used_this_month = call.found.recovery_used_this_month

\* What the code does instead: a call that wrote the row leaves both flags false
C26_WritesClearFlags ==
    (RecordedClean /\ call.found.exists) =>
        /\ ~user_stats.freeze_used_this_week
        /\ ~user_stats.recovery_used_this_month

\* A call found a used protection
C26_Witness ==
    /\ RecordedClean
    /\ call.found.freeze_used_this_week
    /\ call.found.current_streak = 1
    /\ user_stats.current_streak = 2

\* C27: The result reflects the post-accumulation total.  In a successful
\* record_engagement result, level.current_level is the level resolved from
\* the total_points stored once the streak-step points, the action points and
\* the milestone points of the call have been added (the row as the call
\* leaves it), and points.total is that stored total.  That total holds the
\* action points and milestone points of the call on top of the total found
\* (a Start writes its own total, see C10).
C27_ResultReflectsTotal ==
    (RecordedClean /\ result.success) =>
        /\ result.points_total = user_stats.total_points
        /\ result.current_level = CalculateLevel(user_stats.total_points)
        /\ user_stats.total_points >=
               call.found.total_points + result.points_earned + result.milestone_points
               \/ result.transition = "start"

\* A call whose milestone points carry the total over the threshold of level 1
C27_Witness ==
    /\ RecordedClean
    /\ result.success
    /\ result.milestone_achieved
    /\ result.current_level = 1
    /\ CalculateLevel(user_stats.total_points - result.milestone_points) = 0

\* The streak fields of a row
StreakFields(row) ==
    <<row.current_streak, row.longest_streak, row.total_streak_days, row.last_activity_date>>

\* Thread t has read the row in _add_points and its db.update_user_stats is next
AboutToAddPoints(t) == threads[t].pc \in {"points_write", "ms_write"}

\* C28: Adding points never alters streak fields, even under concurrency.
\* Whenever a call is about to perform the write of _add_points, the
\* current_streak, longest_streak, total_streak_days and last_activity_date it
\* writes are the ones stored at that moment, so the write changes only
\* total_points and reverts no other call's transition.
C28_AddPointsKeepsStreak ==
    \A t \in ThreadIds :
        AboutToAddPoints(t) =>
            StreakFields(AddPoints(threads[t].stats, 0, FALSE, FALSE))
                = StreakFields(user_stats)

\* C29: After every successful record_engagement call with a valid action
\* type the stored last_activity_date is today, whatever the stored date was
\* before (unparseable and future dates included), so that a call on the
\* following day meets a one-day gap.
C29_DateIsTodayAfterCall ==
    (RecordedClean /\ result.success /\ call.found.exists) =>
        user_stats.last_activity_date = IsoFormat(call.day)

\* The last call found a row whose date is later than the day of the call
FoundFuture ==
    /\ RecordedClean
    /\ call.found.exists
    /\ call.found.last_activity_date.kind = "iso"
    /\ call.found.last_activity_date.day > call.day

\* C30: A stored last_activity_date later than today is handled like a gap of
\* more than one day.  The call takes the Break branch: current_streak becomes
\* 0, last_activity_date becomes today, longest_streak and total_streak_days
\* stay as they were; it is never a Maintain or an Increment.
C30_FutureDateBreaks ==
    FoundFuture =>
        /\ result.success
        /\ result.transition = "break"
        /\ result.streak_updated
        /\ result.streak_current = 0
        /\ user_stats.current_streak = 0
        /\ user_stats.last_activity_date = IsoFormat(call.day)
        /\ user_stats.longest_streak = call.found.longest_streak
        /\ user_stats.total_streak_days = call.found.total_streak_days

\* A streak of 2 days, last active on day 1, met by a call on day 0
C30_Witness ==
    /\ FoundFuture
    /\ call.day = 0
    /\ call.found.last_activity_date = IsoFormat(1)
    /\ call.found.current_streak = 2
    /\ user_stats.longest_streak = 2
    /\ user_stats.current_streak = 0

============================================================================
